---- MODULE Spec2Model ----
(***************************************************************************)
(* Turn orchestration of the coaching backend.                             *)
(*                                                                         *)
(* Two server variants live in the repository and are modelled side by     *)
(* side; a deployment runs one of them:                                    *)
(*   - server/main.py : the FastAPI /chat handler (stateless two-tier      *)
(*     model routing, local filler line, two-sentence clamp);              *)
(*   - app.py + services/ : the Flask /api/profile and /api/chat handlers  *)
(*     over the JSON profile store of services/user_profile.py and the     *)
(*     routing of services/openai_client.py.                               *)
(* The prompt file of server/main.py and its cache (load_system_prompt),    *)
(* and the cue tags of server/avatar_handler.py, are modelled on their own. *)
(*                                                                         *)
(* Texts are sequences of tokens.  A token is a whitespace character, a    *)
(* sentence ender (. ! ?) or a word without either, so that strip(), the   *)
(* sentence split and the joins act on tokens exactly as they act on the   *)
(* characters of the Python strings.                                       *)
(***************************************************************************)
EXTENDS Integers, Sequences, FiniteSets, TLC

VARIABLES
    app,     \* which server variant is deployed: "fastapi" or "flask"
    file,    \* the file at USER_DB_PATH: [kind, db]
    pc,      \* per worker thread: position in its Flask handler
    st,      \* per worker thread: step inside the running store operation
    req,     \* per worker thread: the request body being served
    loc,     \* per worker thread: locals (loaded db, user record, chat result)
    resp,    \* per worker thread: the last response sent
    served,  \* the requests accepted so far, in order of arrival: [op, user_id]
    log,     \* per user: entries handed to append_history so far, in call order
    rt,      \* the FastAPI /chat request in progress and its response
    fn,      \* a function called on its own: [op, arg, out, done]
    prompt   \* the prompt files, PROMPT_PATH/PROMPT_VERSION, _prompt_cache and
             \* the load_system_prompt call in progress

vars == <<app, file, pc, st, req, loc, resp, served, log, rt, fn, prompt>>

(***************************************************************************)
(* Bounds of the model.                                                    *)
(***************************************************************************)
NumProcs == 2        \* concurrent Flask worker threads
MaxTurns == 2        \* requests accepted in one behaviour of the Flask app
MaxAppends == 25     \* direct append_history calls per user (library driver)
MaxChats == 2        \* /chat requests served in one behaviour of the FastAPI app
MaxMtime == 2        \* last-modified times a prompt file can show
MaxEdits == 2        \* changes made to the prompt files in one behaviour
MaxLoads == 2        \* load_system_prompt calls in one behaviour

Procs == 1..NumProcs
Users == {"u1", "u2"}

(***************************************************************************)
(* Model identifiers.                                                      *)
(***************************************************************************)
PRIMARY_MODEL == "gpt-5-2025-08-07"
FALLBACK_MODEL == "gpt-4o"
CFG_PRIMARY_MODEL == "gpt-5"
CFG_FALLBACK_MODEL == "gpt-4o"

(***************************************************************************)
(* Texts.                                                                  *)
(***************************************************************************)
WS == {" ", "\n"}
Enders == {".", "!", "?"}
None == <<"<None>">>     \* Python's None where a string is expected

RECURSIVE LStrip(_)
LStrip(s) ==
    IF s # <<>> /\ Head(s) \in WS THEN LStrip(Tail(s)) ELSE s

RECURSIVE RStrip(_)
RStrip(s) ==
    IF s # <<>> /\ s[Len(s)] \in WS THEN RStrip(SubSeq(s, 1, Len(s) - 1)) ELSE s

\* str.strip()
Strip(s) == RStrip(LStrip(s))

\* (x or "")
OrEmpty(s) == IF s = None THEN <<>> ELSE s

\* " ".join(parts)
RECURSIVE JoinSpace(_)
JoinSpace(parts) ==
    IF parts = <<>> THEN <<>>
    ELSE IF Len(parts) = 1 THEN parts[1]
    ELSE parts[1] \o <<" ">> \o JoinSpace(Tail(parts))

\* re.split(r'(?<=[.!?])\s+', s): cut at every maximal whitespace run that
\* directly follows a sentence ender; the run itself is dropped.
RECURSIVE SplitFrom(_, _, _)
SplitFrom(s, i, cur) ==
    IF i > Len(s) THEN <<cur>>
    ELSE IF s[i] \in WS /\ i > 1 /\ s[i - 1] \in Enders
         THEN LET j == CHOOSE k \in i..Len(s) :
                         /\ \A m \in i..k : s[m] \in WS
                         /\ (k = Len(s) \/ s[k + 1] \notin WS)
              IN  <<cur>> \o SplitFrom(s, j + 1, <<>>)
         ELSE SplitFrom(s, i + 1, Append(cur, s[i]))

SplitSentences(s) == SplitFrom(s, 1, <<>>)

FirstThree(parts) == SubSeq(parts, 1, IF Len(parts) < 3 THEN Len(parts) ELSE 3)

\* parts[:2]
FirstTwo(parts) == SubSeq(parts, 1, IF Len(parts) < 2 THEN Len(parts) ELSE 2)

clamp_two_sentences(text) ==
    LET s == Strip(OrEmpty(text))
    IN  IF s = <<>> THEN s
        ELSE Strip(JoinSpace(FirstTwo(SplitSentences(s))))

Words(ws) == JoinSpace([i \in 1..Len(ws) |-> <<ws[i]>>])

default_seed_line(name, age, mode, lang) ==
    IF age < 13
    THEN <<"Hi,", " ">> \o name \o <<"!", " ">> \o Words(<<"I'm", "Sunny">>)
         \o <<".", " ">>
         \o Words(<<"Want", "to", "play", "a", "quick", "learning", "game",
                    "with", "me">>) \o <<"?">>
    ELSE IF age < 18
    THEN <<"Hey", " ">> \o name \o <<",", " ">>
         \o Words(<<"ready", "for", "a", "fast", "check-in", "and", "a",
                    "mini", "study", "plan">>) \o <<"?">>
    ELSE <<"Hi", " ">> \o name \o <<",", " ">> \o Words(<<"I'm", "Sunny">>)
         \o <<".", " ">>
         \o Words(<<"What", "would", "you", "like", "to", "work", "on",
                    "first">>) \o <<"?">>

(***************************************************************************)
(* server/avatar_handler.py: cue tags.  A tag such as [[CUE_WAVE]] or      *)
(* [[MODEL:gpt-4o]] holds no whitespace and is one token of a text; the    *)
(* characters of a token are those of the Python string.                   *)
(***************************************************************************)
\* sub in tok
HasSub(tok, sub) ==
    \E k \in 1..(Len(tok) - Len(sub) + 1) : SubSeq(tok, k, k + Len(sub) - 1) = sub

\* "[[CUE_" in clean / "]]" in tail
Holds(s, sub) == \E i \in 1..Len(s) : HasSub(s[i], sub)

\* str.strip("[]") of one token
RECURSIVE StripBrackets(_)
StripBrackets(tok) ==
    IF Len(tok) > 0 /\ SubSeq(tok, 1, 1) \in {"[", "]"}
    THEN StripBrackets(SubSeq(tok, 2, Len(tok)))
    ELSE IF Len(tok) > 0 /\ SubSeq(tok, Len(tok), Len(tok)) \in {"[", "]"}
    THEN StripBrackets(SubSeq(tok, 1, Len(tok) - 1))
    ELSE tok

\* tail.strip("[]"): brackets go from the two ends of the tail
StripTail(tail) ==
    IF Len(tail) = 1 THEN <<StripBrackets(tail[1])>>
    ELSE [i \in 1..Len(tail) |->
            IF i = 1 \/ i = Len(tail) THEN StripBrackets(tail[i]) ELSE tail[i]]

\* the while loop of strip_and_extract_cues: idx is the last "[[CUE_", which
\* opens its token
RECURSIVE CueLoop(_, _)
CueLoop(clean, cues) ==
    IF ~Holds(clean, "[[CUE_") THEN [clean |-> clean, cues |-> cues]
    ELSE LET idx == CHOOSE i \in 1..Len(clean) :
                        /\ HasSub(clean[i], "[[CUE_")
                        /\ \A j \in (i + 1)..Len(clean) : ~HasSub(clean[j], "[[CUE_")
             tail == SubSeq(clean, idx, Len(clean))
         IN  IF Holds(tail, "]]")
             THEN CueLoop(RStrip(SubSeq(clean, 1, idx - 1)),
                          Append(cues, StripTail(tail)))
             ELSE [clean |-> clean, cues |-> cues]

strip_and_extract_cues(text) == CueLoop(text, <<>>)

(***************************************************************************)
(* services/user_profile.py: the profile store.                            *)
(***************************************************************************)
HIST_CAP == 20

EmptyDb == [u \in {} |-> <<>>]

Absent == "<absent>"     \* a key the request body does not carry
NoAge == -1              \* "age" not carried by the request body

\* the file's content as the operations find it
OkFile(db) == [kind |-> "ok", db |-> db]
MissingFile == [kind |-> "missing", db |-> EmptyDb]
GarbledFile == [kind |-> "garbled", db |-> EmptyDb]       \* not parseable as JSON
UnreadableFile == [kind |-> "unreadable", db |-> EmptyDb] \* open() itself fails

\* open(USER_DB_PATH, ...) raises (outside the try of _load)
open_raises(f) == f.kind = "unreadable"

\* _load(): {} for a missing file and for content json.load rejects
_load(f) == IF f.kind = "ok" THEN f.db ELSE EmptyDb

DbPut(db, u, rec) ==
    [x \in (DOMAIN db) \cup {u} |-> IF x = u THEN rec ELSE db[x]]

LastN(s, n) == IF Len(s) <= n THEN s ELSE SubSeq(s, Len(s) - n + 1, Len(s))

NewProfile(name, age, lang) ==
    [name |-> name, age |-> age, lang |-> lang, mode |-> "child",
     history |-> <<>>]

GetOrCreateOverwrite(db, user_id, name, age, lang) ==
    DbPut(db, user_id, NewProfile(name, age, lang))

\* get_or_create on the loaded db: the db to save (unchanged when the user exists)
get_or_create(db, user_id, name, age, lang) ==
    IF user_id \notin DOMAIN db
    THEN DbPut(db, user_id, NewProfile(name, age, lang))
    ELSE db

\* dict.update(fields)
DictUpdate(old, fields) ==
    [k \in (DOMAIN old) \cup (DOMAIN fields) |->
        IF k \in DOMAIN fields THEN fields[k] ELSE old[k]]

update(db, user_id, fields) ==
    IF user_id \notin DOMAIN db THEN db
    ELSE DbPut(db, user_id, DictUpdate(db[user_id], fields))

AppendNoTruncate(db, user_id, role, content) ==
    IF user_id \notin DOMAIN db THEN db
    ELSE DbPut(db, user_id,
               [db[user_id] EXCEPT !.history =
                    Append(@, [role |-> role, content |-> content])])

AppendKeepFirst(db, user_id, role, content) ==
    IF user_id \notin DOMAIN db THEN db
    ELSE LET hist == Append(db[user_id].history,
                            [role |-> role, content |-> content])
         IN  DbPut(db, user_id,
                   [db[user_id] EXCEPT !.history =
                        SubSeq(hist, 1, IF Len(hist) < HIST_CAP THEN Len(hist)
                                        ELSE HIST_CAP)])

append_history(db, user_id, role, content) ==
    IF user_id \notin DOMAIN db THEN db
    ELSE LET hist == Append(db[user_id].history,
                            [role |-> role, content |-> content])
         IN  DbPut(db, user_id,
                   [db[user_id] EXCEPT !.history = LastN(hist, HIST_CAP)])

(***************************************************************************)
(* server/main.py: the message list of a /chat turn.  A message is a       *)
(* record [role, content]; a history entry of the request body is a record *)
(* [sender, text].                                                         *)
(***************************************************************************)
\* sep.join(parts)
RECURSIVE Join(_, _)
Join(parts, sep) ==
    IF parts = <<>> THEN <<>>
    ELSE IF Len(parts) = 1 THEN parts[1]
    ELSE parts[1] \o sep \o Join(Tail(parts), sep)

\* what load_system_prompt() returns when the prompt file does not exist
DEFAULT_PROMPT ==
    Words(<<"You", "are", "Sunny,", "a", "warm,", "encouraging", "life",
            "coach", "and", "tutor">>) \o <<".", " ">>
    \o Words(<<"Be", "concise", "(1-3", "sentences)", "and", "use",
               "Camera/Upload", "when", "helpful">>) \o <<".">>

\* base, or base + "\n\n---\nSESSION CONTEXT\n" + "\n".join(bits)
build_session_prompt(base, payload) ==
    LET Bit(on, label, val) == IF on THEN <<label \o val>> ELSE <<>>
        bits ==
            Bit(payload.name \notin {None, <<>>}, <<"User:", " ">>, payload.name)
            \o Bit(payload.age # NoAge, <<"Age:", " ">>,
                   <<ToString(payload.age)>>)
            \o Bit(payload.mode \notin {Absent, ""}, <<"Mode:", " ">>,
                   <<payload.mode>>)
            \o Bit(payload.objective \notin {None, <<>>},
                   <<"Objective:", " ">>, payload.objective)
            \o Bit(payload.lang \notin {Absent, ""},
                   <<"Preferred", " ", "language:", " ">>, <<payload.lang>>)
            \o Bit(payload.sex \notin {Absent, ""}, <<"Sex:", " ">>,
                   <<payload.sex>>)
            \o Bit(payload.study, <<"StudyMode:", " ", "ON">>, <<>>)
            \o Bit(payload.interpreter, <<"InterpreterMode:", " ", "ON">>, <<>>)
            \o Bit(payload.tutor, <<"TutorMode:", " ", "ON">>, <<>>)
    IN  IF bits # <<>>
        THEN base \o <<"\n", "\n", "---", "\n", "SESSION", " ", "CONTEXT", "\n">>
             \o Join(bits, <<"\n">>)
        ELSE base

\* the seed instruction of compose_messages
SeedInstruction ==
    Words(<<"Please", "greet", "warmly", "and", "immediately", "begin", "a",
            "brief,", "age-appropriate", "assessment", "or", "starter",
            "plan">>) \o <<".", " ">>
    \o Words(<<"Ask", "one", "short", "question", "the", "learner", "can",
               "answer", "out", "loud">>) \o <<".">>

\* the silence nudge of compose_messages
SilenceNudge ==
    Words(<<"The", "learner", "is", "quiet">>) \o <<".", " ">>
    \o Words(<<"Keep", "the", "session", "moving", "with", "the", "next",
               "short", "step", "or", "question">>) \o <<".", " ">>
    \o Words(<<"Be", "encouraging", "and", "specific">>) \o <<".">>

Msg(role, content) == [role |-> role, content |-> content]

\* the loop over payload["history"]: blank entries are skipped
RECURSIVE ReplayHistory(_)
ReplayHistory(history_list) ==
    IF history_list = <<>> THEN <<>>
    ELSE LET turn == Head(history_list)
             txt == Strip(OrEmpty(turn.text))
         IN  (IF txt = <<>> THEN <<>>
              ELSE <<Msg(IF turn.sender \in {"coach", "assistant"}
                         THEN "assistant" ELSE "user", txt)>>)
             \o ReplayHistory(Tail(history_list))

compose_messages(base, payload) ==
    LET sys == build_session_prompt(base, payload)
        user_text == Strip(OrEmpty(payload.user_text))
    IN  <<Msg("system", sys)>>
        \o ReplayHistory(payload.history)
        \o (IF payload.include_seed THEN <<Msg("user", SeedInstruction)>>
            ELSE IF payload.no_reply /\ user_text = <<>>
            THEN <<Msg("user", SilenceNudge)>>
            ELSE IF user_text # <<>> THEN <<Msg("user", user_text)>>
            ELSE <<>>)

(***************************************************************************)
(* services/openai_client.py and server/prompting.py: the message lists of *)
(* an /api/chat turn and of PromptBuilder.                                 *)
(***************************************************************************)
\* prompts/master_prompt.py: the policy blocks around the session primer,
\* which carries the placeholders
MASTER_PROMPT ==
    <<"\n", "coach_core_v1", "\n", "\n", "session_primer_v1", "\n",
      "Child", " ", "name:", " ", "{{name}}", ".", " ",
      "Age:", " ", "{{age}}", ".", " ",
      "Primary", " ", "language:", " ", "{{lang}}", ".", "\n",
      "Mode:", " ", "{{mode}}", "\n",
      "Today's", " ", "objective:", " ", "{{objective}}", ".", "\n", "\n",
      "engagement_rules_v1", "\n", "assessment_framework_v1", "\n",
      "safety_rules_kids_v1", "\n", "turn_recipe_v1", "\n",
      "silence_handling_v1", "\n">>

\* str.replace(old, new) for a placeholder token
RECURSIVE Replace(_, _, _)
Replace(s, old, new) ==
    IF s = <<>> THEN <<>>
    ELSE (IF Head(s) = old THEN new ELSE <<Head(s)>>)
         \o Replace(Tail(s), old, new)

build_messages(name, age, lang, mode, objective, history, user_text) ==
    LET sys == Replace(Replace(Replace(Replace(Replace(MASTER_PROMPT,
                    "{{name}}", name), "{{age}}", <<ToString(age)>>),
                    "{{lang}}", <<lang>>), "{{mode}}", <<mode>>),
                    "{{objective}}", objective)
        window == LastN(history, 6)
    IN  <<Msg("system", sys)>>
        \o [i \in 1..Len(window) |-> Msg(window[i].role, window[i].content)]
        \o <<Msg("user", user_text)>>

\* PromptBuilder.build_turn_messages
build_turn_messages(user_text, name, age, mode, last_assistant, last_domain) ==
    LET TURN_RECIPE == <<"Turn", " ", "recipe:", " ", "...", " ", "EXACTLY",
                         " ", "one", " ", "question", " ", "mark", " ", "per",
                         " ", "turn", ".">>
        SILENCE_RULES == <<"If", " ", "no/unclear", " ", "answer:", " ", "...",
                           " ", "vary", " ", "phrasing", ".">>
        _context_json ==
            <<"{child:{name:">> \o name \o <<",age:", ToString(age), "},mode:",
              mode, ",engagement:{last_domain:">> \o OrEmpty(last_domain)
            \o <<"},constraints:{one_question_only:true,max_words:35}}">>
    IN  <<Msg("system", TURN_RECIPE), Msg("system", SILENCE_RULES),
          Msg("user", _context_json)>>
        \o (IF last_assistant \notin {None, <<>>}
            THEN <<Msg("assistant", last_assistant)>> ELSE <<>>)
        \o <<Msg("user", OrEmpty(user_text))>>

(***************************************************************************)
(* services/openai_client.py: chat(), the routing behind /api/chat.        *)
(* An outcome of a model call is an error (exception or timeout) or a      *)
(* completion whose content is a text or None.                             *)
(***************************************************************************)
Raises == [ok |-> FALSE, content |-> None]
Returns(c) == [ok |-> TRUE, content |-> c]

ModelTag(m) == <<" ", "[[MODEL:" \o m \o "]]">>

ClientCallAlwaysFails(o) == TRUE

\* the try block of chat() ends in the except branch: the call raised, or
\* resp.choices[0].message.content.strip() did (an AttributeError on None)
client_call_fails(o) == ~o.ok \/ o.content = None

\* the record of one call in a turn's call log: the model asked, and whether
\* the call raised, returned no text (None, empty or blank) or returned text
Call(m, o) ==
    [model |-> m,
     result |-> IF ~o.ok THEN "raised"
                ELSE IF Strip(OrEmpty(o.content)) = <<>> THEN "empty"
                ELSE "text"]

client_reply(o, m) == Strip(o.content) \o ModelTag(m)

(***************************************************************************)
(* Inputs of the Flask handlers.                                           *)
(***************************************************************************)
TextsIn == {<<>>, <<"hi">>}
FlaskOutcomes == {Raises, Returns(None), Returns(<<"Yes", "?">>)}

ChatBodies ==
    [op : {"chat"}, user_id : Users, text : TextsIn, role : {Absent},
     name : {Absent}, age : {NoAge}, lang : {Absent}, mode : {Absent}]

\* /api/chat bodies that carry a name and an age
HintedChatBodies ==
    [op : {"chat"}, user_id : Users, text : TextsIn, role : {Absent},
     name : {"Mia"}, age : {15}, lang : {Absent}, mode : {Absent}]

ProfileBodies ==
    [op : {"profile"}, user_id : Users, text : {<<>>}, role : {Absent},
     name : {Absent}, age : {NoAge}, lang : {Absent}, mode : {Absent}]
    \cup
    [op : {"profile"}, user_id : Users, text : {<<>>}, role : {Absent},
     name : {"Mia"}, age : {15}, lang : {Absent}, mode : {"teen"}]

NoBody ==
    [op |-> "none", user_id |-> "u1", text |-> <<>>, role |-> Absent,
     name |-> Absent,
     age |-> NoAge, lang |-> Absent, mode |-> Absent, id |-> 0]

WithId(body, n) ==
    [k \in (DOMAIN body) \cup {"id"} |-> IF k = "id" THEN n ELSE body[k]]

\* d.get(key, default)
Get(v, default) == IF v = Absent THEN default ELSE v
GetAge(v, default) == IF v = NoAge THEN default ELSE v

NoUser == NewProfile(Absent, NoAge, Absent)
NoLoc ==
    [db |-> EmptyDb, user |-> NoUser, reply |-> <<>>, model |-> Absent,
     calls |-> <<>>]
NoResp ==
    [kind |-> "none", op |-> "none", id |-> 0, reply |-> <<>>,
     model |-> Absent, calls |-> <<>>, profile |-> NoUser]

\* what a history entry holds: the text, tagged with the request it came from
Content(id, text) == [turn |-> id, text |-> text]
Entry(role, id, text) == [role |-> role, content |-> Content(id, text)]

\* the last /chat turn answered before the one in progress
NoPrev == [silent |-> FALSE, name |-> <<>>, reply |-> <<>>]

NoRt ==
    [pc |-> "idle", n |-> 0, name |-> <<>>, age |-> 0, mode |-> Absent,
     lang |-> Absent, text |-> <<>>, model_used |-> Absent, calls |-> <<>>,
     done |-> FALSE, reply |-> <<>>,
     body |-> [name |-> None, age |-> NoAge, mode |-> Absent,
               history |-> <<>>, user_text |-> <<>>, include_seed |-> FALSE,
               no_reply |-> FALSE],
     messages |-> <<>>, prev |-> NoPrev]

NoFn == [op |-> "none", arg |-> <<>>, out |-> <<>>, done |-> FALSE]

(***************************************************************************)
(* Positions of a Flask worker thread.                                     *)
(*   /api/chat    : chat_goc, chat_primary, chat_fallback, chat_app_user,  *)
(*                  chat_app_asst                                          *)
(*   /api/profile : prof_goc, prof_upd                                     *)
(*   direct calls of the store (library driver): call_goc, call_app        *)
(* A store operation runs in the steps load, open (the file is opened for  *)
(* writing and so truncated) and dump (json.dump and close).               *)
(***************************************************************************)
GocOps == {"chat_goc", "prof_goc", "call_goc"}
AppOps == {"chat_app_user", "chat_app_asst", "call_app"}
UpdOps == {"prof_upd"}
StoreOps == GocOps \cup AppOps \cup UpdOps

\* where the handler goes when the store operation at position q returns
NextPc(q) ==
    CASE q = "chat_goc" -> "chat_primary"
      [] q = "chat_app_user" -> "chat_app_asst"
      [] q = "prof_goc" -> "prof_upd"
      [] OTHER -> "idle"

\* after chat(): if text_in: append_history(user) ...; append_history(assistant)
AfterChat(body) == IF body.text # <<>> THEN "chat_app_user" ELSE "chat_app_asst"

\* /api/profile: if "mode" in d: user["mode"] = d["mode"]
ProfileFields(p) ==
    IF req[p].mode # Absent
    THEN [loc[p].user EXCEPT !.mode = req[p].mode]
    ELSE loc[p].user

\* the response of a handler that returns with locals l; calls is the turn's
\* call log.  /api/profile answers with the profile it passed to update(), a
\* direct get_or_create call returns the record, /api/chat carries no profile
OkResp(p, l) ==
    [kind |-> "ok", op |-> req[p].op, id |-> req[p].id,
     reply |-> l.reply, model |-> l.model, calls |-> l.calls,
     profile |-> CASE req[p].op = "profile" -> ProfileFields(p)
                   [] req[p].op \in {"call", "reload"} -> l.user
                   [] OTHER -> NoUser]

ErrResp(p, why, calls) ==
    [kind |-> why, op |-> req[p].op, id |-> req[p].id, reply |-> <<>>,
     model |-> Absent, calls |-> calls, profile |-> NoUser]

\* the handler moves on to position q with locals l; when it returns, the
\* response is sent and the thread's request and locals are gone
GoTo(p, q, l) ==
    /\ pc' = [pc EXCEPT ![p] = q]
    /\ st' = [st EXCEPT ![p] = IF q \in StoreOps THEN "load" ELSE "-"]
    /\ resp' = IF q = "idle" THEN [resp EXCEPT ![p] = OkResp(p, l)] ELSE resp
    /\ req' = IF q = "idle" THEN [req EXCEPT ![p] = NoBody] ELSE req
    /\ loc' = [loc EXCEPT ![p] = IF q = "idle" THEN NoLoc ELSE l]

\* the running store operation goes on to its step s with locals l
Step(p, s, l) ==
    /\ st' = [st EXCEPT ![p] = s]
    /\ loc' = [loc EXCEPT ![p] = l]
    /\ UNCHANGED <<pc, resp, req>>

\* an exception leaves the handler: Flask answers 500
Fail(p, why, calls) ==
    /\ pc' = [pc EXCEPT ![p] = "idle"]
    /\ st' = [st EXCEPT ![p] = "-"]
    /\ resp' = [resp EXCEPT ![p] = ErrResp(p, why, calls)]
    /\ req' = [req EXCEPT ![p] = NoBody]
    /\ loc' = [loc EXCEPT ![p] = NoLoc]

\* the entry the append_history call at position q hands over
EntryAt(p) ==
    CASE pc[p] = "chat_app_user" -> Entry("user", req[p].id, req[p].text)
      [] pc[p] = "chat_app_asst" ->
            Entry("assistant", req[p].id, loc[p].reply)
      [] OTHER -> Entry(req[p].role, req[p].id, req[p].text)

(***************************************************************************)
(* app.py: the requests.                                                   *)
(***************************************************************************)
ApiChatRequest(p, body) ==
    /\ app = "flask" /\ pc[p] = "idle" /\ Len(served) < MaxTurns
    /\ served' = Append(served, [op |-> body.op, user_id |-> body.user_id])
    /\ req' = [req EXCEPT ![p] = WithId(body, Len(served) + 1)]
    /\ loc' = [loc EXCEPT ![p] = NoLoc]
    /\ pc' = [pc EXCEPT ![p] = "chat_goc"]
    /\ st' = [st EXCEPT ![p] = "load"]
    /\ UNCHANGED <<app, file, resp, log, rt, fn, prompt>>

ProfileRequest(p, body) ==
    /\ app = "flask" /\ pc[p] = "idle" /\ Len(served) < MaxTurns
    /\ served' = Append(served, [op |-> body.op, user_id |-> body.user_id])
    /\ req' = [req EXCEPT ![p] = WithId(body, Len(served) + 1)]
    /\ loc' = [loc EXCEPT ![p] = NoLoc]
    /\ pc' = [pc EXCEPT ![p] = "prof_goc"]
    /\ st' = [st EXCEPT ![p] = "load"]
    /\ UNCHANGED <<app, file, resp, log, rt, fn, prompt>>

(***************************************************************************)
(* services/user_profile.py: the steps of the three operations.            *)
(***************************************************************************)
GetOrCreateLoad(p) ==
    /\ pc[p] \in GocOps /\ st[p] = "load"
    /\ IF open_raises(file)
       THEN Fail(p, "storage_error", loc[p].calls)
       ELSE LET db == _load(file)
                uid == req[p].user_id
            IN  IF uid \notin DOMAIN db
                THEN Step(p, "open",
                          [loc[p] EXCEPT !.db =
                            get_or_create(db, uid, Get(req[p].name, "Guest"),
                                          GetAge(req[p].age, 5),
                                          Get(req[p].lang, "en"))])
                ELSE GoTo(p, NextPc(pc[p]),
                          [loc[p] EXCEPT !.user =
                            get_or_create(db, uid, Get(req[p].name, "Guest"),
                                          GetAge(req[p].age, 5),
                                          Get(req[p].lang, "en"))[uid]])
    /\ UNCHANGED <<app, file, served, log, rt, fn, prompt>>

UpdateLoad(p) ==
    /\ pc[p] \in UpdOps /\ st[p] = "load"
    /\ IF open_raises(file)
       THEN Fail(p, "storage_error", loc[p].calls)
       ELSE LET db == _load(file)
                uid == req[p].user_id
            IN  IF uid \notin DOMAIN db
                THEN GoTo(p, NextPc(pc[p]), loc[p])
                ELSE Step(p, "open",
                          [loc[p] EXCEPT !.db =
                                update(db, uid, ProfileFields(p))])
    /\ UNCHANGED <<app, file, served, log, rt, fn, prompt>>

AppendHistoryLoad(p) ==
    /\ pc[p] \in AppOps /\ st[p] = "load"
    /\ IF open_raises(file)
       THEN Fail(p, "storage_error", loc[p].calls) /\ UNCHANGED log
       ELSE LET db == _load(file)
                uid == req[p].user_id
                e == EntryAt(p)
            IN  /\ log' = [log EXCEPT ![uid] = Append(@, e)]
                /\ IF uid \notin DOMAIN db
                   THEN GoTo(p, NextPc(pc[p]), loc[p])
                   ELSE Step(p, "open",
                             [loc[p] EXCEPT !.db =
                                append_history(db, uid, e.role, e.content)])
    /\ UNCHANGED <<app, file, served, rt, fn, prompt>>

\* _save: open(USER_DB_PATH, "w") truncates the file
SaveOpen(p) ==
    /\ pc[p] \in StoreOps /\ st[p] = "open"
    /\ IF open_raises(file)
       THEN Fail(p, "storage_error", loc[p].calls) /\ UNCHANGED file
       ELSE file' = GarbledFile /\ Step(p, "dump", loc[p])
    /\ UNCHANGED <<app, served, log, rt, fn, prompt>>

\* _save: json.dump(db, f) and close; the operation returns
SaveDump(p) ==
    /\ pc[p] \in StoreOps /\ st[p] = "dump"
    /\ file' = OkFile(loc[p].db)
    /\ GoTo(p, NextPc(pc[p]),
            IF pc[p] \in GocOps
            THEN [loc[p] EXCEPT !.user = loc[p].db[req[p].user_id]]
            ELSE loc[p])
    /\ UNCHANGED <<app, served, log, rt, fn, prompt>>

(***************************************************************************)
(* services/openai_client.py: chat() as /api/chat calls it.                *)
(***************************************************************************)
ClientPrimary(p, o) ==
    /\ pc[p] = "chat_primary"
    /\ IF client_call_fails(o)
       THEN GoTo(p, "chat_fallback",
                 [loc[p] EXCEPT !.calls = Append(@, Call(CFG_PRIMARY_MODEL, o))])
       ELSE GoTo(p, AfterChat(req[p]),
                 [loc[p] EXCEPT
                    !.calls = Append(@, Call(CFG_PRIMARY_MODEL, o)),
                    !.reply = client_reply(o, CFG_PRIMARY_MODEL),
                    !.model = CFG_PRIMARY_MODEL])
    /\ UNCHANGED <<app, file, served, log, rt, fn, prompt>>

ClientFallbackSwallows(p, o) ==
    /\ pc[p] = "chat_fallback"
    /\ GoTo(p, AfterChat(req[p]),
            [loc[p] EXCEPT
               !.calls = Append(@, Call(CFG_FALLBACK_MODEL, o)),
               !.reply = IF client_call_fails(o) THEN <<>>
                         ELSE client_reply(o, CFG_FALLBACK_MODEL),
               !.model = CFG_FALLBACK_MODEL])
    /\ UNCHANGED <<app, file, served, log, rt, fn, prompt>>

\* the fallback call is not guarded: its exception leaves chat() and /api/chat
ClientFallback(p, o) ==
    /\ pc[p] = "chat_fallback"
    /\ IF client_call_fails(o)
       THEN Fail(p, "model_error",
                 Append(loc[p].calls, Call(CFG_FALLBACK_MODEL, o)))
       ELSE GoTo(p, AfterChat(req[p]),
                 [loc[p] EXCEPT
                    !.calls = Append(@, Call(CFG_FALLBACK_MODEL, o)),
                    !.reply = client_reply(o, CFG_FALLBACK_MODEL),
                    !.model = CFG_FALLBACK_MODEL])
    /\ UNCHANGED <<app, file, served, log, rt, fn, prompt>>

(***************************************************************************)
(* Direct calls of the store, one after the other (a library driver).      *)
(***************************************************************************)
CallBody(u, role, n) ==
    [op |-> "call", user_id |-> u, text |-> <<"t">>, role |-> role,
     name |-> Absent, age |-> NoAge, lang |-> Absent, mode |-> Absent,
     id |-> n]

CallGetOrCreate(p, u) ==
    /\ app = "library" /\ pc[p] = "idle"
    /\ u \notin DOMAIN _load(file)
    /\ req' = [req EXCEPT ![p] = CallBody(u, Absent, 0)]
    /\ loc' = [loc EXCEPT ![p] = NoLoc]
    /\ pc' = [pc EXCEPT ![p] = "call_goc"]
    /\ st' = [st EXCEPT ![p] = "load"]
    /\ UNCHANGED <<app, file, resp, served, log, rt, fn, prompt>>

\* the n-th append_history call for u: roles alternate, user first
CallAppend(p, u) ==
    /\ app = "library" /\ pc[p] = "idle"
    /\ u \in DOMAIN _load(file)
    /\ Len(log[u]) < MaxAppends
    /\ LET n == Len(log[u]) + 1
       IN  req' = [req EXCEPT ![p] =
                CallBody(u, IF n % 2 = 1 THEN "user" ELSE "assistant", n)]
    /\ loc' = [loc EXCEPT ![p] = NoLoc]
    /\ pc' = [pc EXCEPT ![p] = "call_app"]
    /\ st' = [st EXCEPT ![p] = "load"]
    /\ UNCHANGED <<app, file, resp, served, log, rt, fn, prompt>>

\* get_or_create called again for a profile the store holds, with hints
ReloadNames == {Absent, "Zed"}
ReloadAges == {NoAge, 30}
ReloadLangs == {Absent, "fr"}

CallReload(p, u, name, age, lang) ==
    /\ app = "library" /\ pc[p] = "idle"
    /\ file.kind = "ok" /\ u \in DOMAIN file.db
    /\ req' = [req EXCEPT ![p] =
                [CallBody(u, Absent, 0) EXCEPT !.op = "reload", !.name = name,
                                               !.age = age, !.lang = lang]]
    /\ loc' = [loc EXCEPT ![p] = NoLoc]
    /\ pc' = [pc EXCEPT ![p] = "call_goc"]
    /\ st' = [st EXCEPT ![p] = "load"]
    /\ UNCHANGED <<app, file, resp, served, log, rt, fn, prompt>>

(***************************************************************************)
(* server/main.py: the /chat handler.  The message list it composes for    *)
(* the model (compose_messages) does not decide what the routing does with *)
(* the outcome of a call; the outcome is an input of the call steps.  The  *)
(* prompt file is not part of the source tree: load_system_prompt() gives  *)
(* the built-in default.                                                   *)
(***************************************************************************)
NamesIn == {None, <<"Mia">>}
AgesIn == {NoAge, 5, 15}
ChatOutcomes ==
    {Raises, Returns(None), Returns(<<>>), Returns(<<" ">>),
     Returns(<<"Yes", "?">>),
     Returns(<<"Hi", "!", " ", "Ok", ".", " ", "Go", "?", " ">>),
     Returns(<<"Ok">>), Returns(<<"[[CUE_WAVE]]">>)}

\* histories a /chat body carries: none; learner and coach entries with a
\* blank and a missing text; thirteen entries
HistoriesIn ==
    {<<>>,
     <<[sender |-> "learner", text |-> <<"hello">>],
       [sender |-> "coach", text |-> <<" ">>],
       [sender |-> "user", text |-> None],
       [sender |-> "assistant", text |-> <<"Yes", "?">>]>>,
     [i \in 1..13 |-> [sender |-> IF i % 2 = 1 THEN "learner" ELSE "coach",
                       text |-> <<"t" \o ToString(i)>>]]}

\* the payload chat() hands to compose_messages
chat_payload(name, age, mode, history, user_text, include_seed, no_reply) ==
    [name |-> name, age |-> age, mode |-> mode,
     objective |-> <<"gentle", " ", "warm-up", " ", "assessment">>,
     lang |-> "en-US", sex |-> "unknown", study |-> FALSE,
     interpreter |-> FALSE, tutor |-> FALSE, history |-> history,
     user_text |-> user_text, include_seed |-> include_seed,
     no_reply |-> no_reply]

\* the bodies of /chat requests: first turns of a session with every
\* name, age, user text and flags, and silent later turns that carry a
\* history, with and without a mode hint
ChatRequestsIn ==
    [name : NamesIn, age : AgesIn, mode : {Absent}, history : {<<>>},
     user_text : {<<>>, <<"hi">>}, include_seed : BOOLEAN, no_reply : BOOLEAN]
    \cup
    [name : NamesIn, age : {NoAge}, mode : {Absent, "teen"},
     history : {h \in HistoriesIn : Len(h) = 4},
     user_text : {<<>>}, include_seed : {FALSE}, no_reply : {TRUE}]

\* the learner said nothing in the turn
Silent(body) == body.no_reply /\ Strip(OrEmpty(body.user_text)) = <<>>

\* "child" if age < 13 else "teen" if age < 18 else "adult"
mode_of(age) == IF age < 13 THEN "child" ELSE IF age < 18 THEN "teen" ELSE "adult"

ChatRequest(body) ==
    /\ app = "fastapi" /\ rt.pc = "idle" /\ rt.n < MaxChats
    /\ LET name == Strip(IF body.name = None THEN <<"Friend">> ELSE body.name)
           age == GetAge(body.age, 18)
           mode == IF body.mode = Absent THEN mode_of(age) ELSE body.mode
       IN  rt' = [pc |-> "primary", n |-> rt.n + 1,
                  name |-> name, age |-> age, mode |-> mode, lang |-> "en-US",
                  text |-> <<>>, model_used |-> PRIMARY_MODEL,
                  calls |-> <<>>, done |-> FALSE, reply |-> <<>>,
                  body |-> body,
                  messages |->
                      compose_messages(DEFAULT_PROMPT,
                          chat_payload(name, age, mode, body.history,
                                       OrEmpty(body.user_text),
                                       body.include_seed, body.no_reply)),
                  prev |-> IF rt.done
                           THEN [silent |-> Silent(rt.body), name |-> rt.name,
                                 reply |-> rt.reply]
                           ELSE NoPrev]
    /\ UNCHANGED <<app, file, pc, st, req, loc, resp, served, log, fn, prompt>>

ChatPrimary(o) ==
    /\ rt.pc = "primary"
    /\ rt' = IF ~o.ok
             THEN [rt EXCEPT !.calls = Append(@, Call(PRIMARY_MODEL, o)),
                             !.model_used = FALLBACK_MODEL,
                             !.pc = "fallback"]
             ELSE [rt EXCEPT !.calls = Append(@, Call(PRIMARY_MODEL, o)),
                             !.text = Strip(OrEmpty(o.content)),
                             !.pc = "respond"]
    /\ UNCHANGED <<app, file, pc, st, req, loc, resp, served, log, fn, prompt>>

ChatFallback(o) ==
    /\ rt.pc = "fallback"
    /\ rt' = [rt EXCEPT !.calls = Append(@, Call(FALLBACK_MODEL, o)),
                        !.text = IF o.ok THEN Strip(OrEmpty(o.content))
                                 ELSE <<>>,
                        !.pc = "respond"]
    /\ UNCHANGED <<app, file, pc, st, req, loc, resp, served, log, fn, prompt>>

\* if not text: text = default_seed_line(...); text = clamp_two_sentences(text)
ChatRespond ==
    /\ rt.pc = "respond"
    /\ LET text == IF rt.text = <<>>
                   THEN default_seed_line(rt.name, rt.age, rt.mode, rt.lang)
                   ELSE rt.text
       IN  rt' = [rt EXCEPT !.reply = clamp_two_sentences(text),
                            !.done = TRUE, !.pc = "idle"]
    /\ UNCHANGED <<app, file, pc, st, req, loc, resp, served, log, fn, prompt>>

(***************************************************************************)
(* server/main.py: the system prompt file and _prompt_cache.  The files    *)
(* are edited from outside the process, also between the stat() and the    *)
(* read_text() of a call; the environment variables are those of the       *)
(* process and change between calls.                                       *)
(***************************************************************************)
DEFAULT_PROMPT_FILE == "coach_system_prompt.md"
VersionFile(ver) == "coach_system_prompt.v" \o ver \o ".md"
EnvPaths == {Absent, "/etc/sunny.md"}
EnvVersions == {Absent, "2"}
PromptFiles == {DEFAULT_PROMPT_FILE} \cup ((EnvPaths \cup {VersionFile(v) : v \in EnvVersions \ {Absent}}) \ {Absent})

_resolve_prompt_path(env) ==
    IF env.PROMPT_PATH # Absent THEN env.PROMPT_PATH
    ELSE IF env.PROMPT_VERSION # Absent THEN VersionFile(env.PROMPT_VERSION)
    ELSE DEFAULT_PROMPT_FILE

\* a file: is it there, may the process read it, its text and its st_mtime
NoFile == [there |-> FALSE, readable |-> TRUE, text |-> <<>>, mtime |-> 0]
\* the text the default file holds at boot, and the texts written later: one
\* with front matter, one whose front matter is not closed
BootText == <<"Be", " ", "kind", ".">>
PromptTexts ==
    {<<"---", "\n", "v:2", "\n", "---", "\n", "\n", "Be", " ", "brief", ".">>,
     <<"---", "\n", "Be", " ", "calm", ".">>}

\* tok.startswith(pre)
StartsWith(tok, pre) == Len(tok) >= Len(pre) /\ SubSeq(tok, 1, Len(pre)) = pre

\* strip optional front-matter: text.find("\n---", 3), text[end+4:].lstrip()
strip_front_matter(text) ==
    IF text = <<>> \/ ~StartsWith(text[1], "---") THEN text
    ELSE LET ends == {i \in 2..(Len(text) - 1) :
                          text[i] = "\n" /\ StartsWith(text[i + 1], "---")}
         IN  IF ends = {} THEN text
             ELSE LET end == CHOOSE i \in ends : \A j \in ends : i <= j
                      rest == SubSeq(text[end + 1], 4, Len(text[end + 1]))
                  IN  LStrip((IF Len(rest) = 0 THEN <<>> ELSE <<rest>>)
                             \o SubSeq(text, end + 2, Len(text)))

NoCache == [text |-> None, mtime |-> 0, path |-> Absent]

CacheIgnoresMtime(cache, st_mtime, path) ==
    cache.text = None \/ cache.path # path

\* the condition under which load_system_prompt reads the file
cache_miss(cache, st_mtime, path) ==
    \/ cache.text = None
    \/ cache.mtime # st_mtime
    \/ cache.path # path

\* what is kept of the last call that ended: how it ended and with which
\* text, whether read_text() was called, the path and the st_mtime it saw,
\* the cache as the call found it (was), the text the file held when the
\* call ended (now), and whether the file was missing or could not be read
NoLoad ==
    [kind |-> "none", text |-> <<>>, path |-> Absent, read |-> FALSE,
     st_mtime |-> 0, was |-> NoCache, now |-> <<>>, unavailable |-> FALSE]

Ended(kind, text, path, read, st_mtime, was, unavailable) ==
    [kind |-> kind, text |-> text, path |-> path, read |-> read,
     st_mtime |-> st_mtime, was |-> was, now |-> prompt.files[path].text,
     unavailable |-> unavailable]

PromptAtBoot ==
    [files |-> [f \in PromptFiles |-> NoFile],
     env |-> [PROMPT_PATH |-> Absent, PROMPT_VERSION |-> Absent],
     cache |-> NoCache, pc |-> "idle", path |-> Absent, st_mtime |-> 0,
     loads |-> 0, edits |-> 0, top |-> [f \in PromptFiles |-> 0],
     rising |-> TRUE, last |-> NoLoad]

PromptFrame ==
    UNCHANGED <<app, file, pc, st, req, loc, resp, served, log, rt, fn>>

\* the file f is written: its last-modified time changes.  top is the latest
\* time f has shown, rising says that every write so far gave a later one
EditPrompt(f, text, m) ==
    /\ prompt.edits < MaxEdits
    /\ m # prompt.files[f].mtime
    /\ prompt' = [prompt EXCEPT
          !.files[f] = [there |-> TRUE, readable |-> @.readable,
                        text |-> text, mtime |-> m],
          !.edits = @ + 1,
          !.top[f] = IF m > @ THEN m ELSE @,
          !.rising = @ /\ m > prompt.top[f]]
    /\ PromptFrame

RemovePrompt(f) ==
    /\ prompt.edits < MaxEdits /\ prompt.files[f].there
    /\ prompt' = [prompt EXCEPT !.files[f] = NoFile, !.edits = @ + 1]
    /\ PromptFrame

\* chmod: the process may no longer (or may again) read f; st_mtime stays
ChmodPrompt(f) ==
    /\ prompt.edits < MaxEdits /\ prompt.files[f].there
    /\ prompt' = [prompt EXCEPT !.files[f].readable = ~@, !.edits = @ + 1]
    /\ PromptFrame

SetPromptEnv(path, ver) ==
    /\ prompt.pc = "idle"
    /\ prompt.env # [PROMPT_PATH |-> path, PROMPT_VERSION |-> ver]
    /\ prompt' = [prompt EXCEPT
          !.env = [PROMPT_PATH |-> path, PROMPT_VERSION |-> ver]]
    /\ PromptFrame

\* load_system_prompt up to the cache test: the path is resolved, stat() is
\* called (FileNotFoundError gives the built-in default) and the cache is
\* tested; on a hit the cached text is returned
LoadStat ==
    /\ prompt.pc = "idle" /\ prompt.loads < MaxLoads
    /\ LET path == _resolve_prompt_path(prompt.env)
           f == prompt.files[path]
           miss == cache_miss(prompt.cache, f.mtime, path)
       IN  prompt' =
             IF ~f.there
             THEN [prompt EXCEPT
                     !.loads = @ + 1,
                     !.last = Ended("returned", DEFAULT_PROMPT, path, FALSE,
                                    0, prompt.cache, TRUE)]
             ELSE IF miss
             THEN [prompt EXCEPT
                     !.loads = @ + 1, !.pc = "read", !.path = path,
                     !.st_mtime = f.mtime]
             ELSE [prompt EXCEPT
                     !.loads = @ + 1,
                     !.last = Ended("returned", prompt.cache.text, path,
                                    FALSE, f.mtime, prompt.cache, FALSE)]
    /\ PromptFrame

\* path.read_text() and what follows it; an exception of read_text leaves
\* load_system_prompt
LoadRead ==
    /\ prompt.pc = "read"
    /\ LET f == prompt.files[prompt.path]
           text == strip_front_matter(f.text)
       IN  prompt' =
             IF ~f.there \/ ~f.readable
             THEN [prompt EXCEPT
                     !.pc = "idle",
                     !.last = Ended("raised", <<>>, prompt.path, TRUE,
                                    prompt.st_mtime, prompt.cache, TRUE)]
             ELSE [prompt EXCEPT
                     !.pc = "idle",
                     !.cache = [text |-> text, mtime |-> prompt.st_mtime,
                                path |-> prompt.path],
                     !.last = Ended("returned", text, prompt.path, TRUE,
                                    prompt.st_mtime, prompt.cache, FALSE)]
    /\ PromptFrame

(***************************************************************************)
(* The message builders and the clamp, each called on its own.             *)
(***************************************************************************)
MaxRaw == 6          \* tokens of a raw reply text
MaxTagged == 4       \* tokens of a reply that carries tags

\* histories a stored profile holds: none, three entries, eight entries
StoredHistoriesIn ==
    {[i \in 1..n |-> [role |-> IF i % 2 = 1 THEN "user" ELSE "assistant",
                      content |-> <<"s" \o ToString(i)>>]] : n \in {0, 3, 8}}

\* raw texts: every sequence of up to MaxRaw tokens over a word, two
\* enders and a blank, and None
RawTexts ==
    {None} \cup UNION {[1..n -> {"a", ".", "?", " "}] : n \in 0..MaxRaw}

\* replies with tags: every sequence of up to MaxTagged tokens over a word,
\* a blank, a cue tag, a cue tag that is not closed and a model tag
TaggedTexts ==
    UNION {[1..n -> {"Hi", " ", "[[CUE_WAVE]]", "[[CUE_", "[[MODEL:gpt-4o]]"}] :
             n \in 0..MaxTagged}

FnCalls ==
    {[op |-> "compose_messages", done |-> FALSE, out |-> <<>>,
      arg |-> chat_payload(<<"Mia">>, 7, "child", h, t, seed, quiet)] :
        h \in HistoriesIn,
        t \in {None, <<>>, <<" ">>, <<"hi">>, <<" ", "hi", "\n">>},
        seed \in BOOLEAN, quiet \in BOOLEAN}
    \cup {[op |-> "api_chat", done |-> FALSE, out |-> <<>>,
           arg |-> [history |-> h, text_in |-> t]] :
             h \in StoredHistoriesIn, t \in {<<>>, <<" ">>, <<"hi">>}}
    \cup {[op |-> "build_turn_messages", done |-> FALSE, out |-> <<>>,
           arg |-> [user_text |-> t, last_assistant |-> a]] :
             t \in {None, <<>>, <<" ">>, <<"hi">>},
             a \in {None, <<>>, <<"Yes", "?">>}}
    \cup {[op |-> "clamp_two_sentences", done |-> FALSE, out |-> <<>>,
           arg |-> t] : t \in RawTexts}
    \cup {[op |-> "strip_and_extract_cues", done |-> FALSE, out |-> <<>>,
           arg |-> t] : t \in TaggedTexts}

Returned(out) ==
    /\ fn' = [fn EXCEPT !.out = out, !.done = TRUE]
    /\ UNCHANGED <<app, file, pc, st, req, loc, resp, served, log, rt, prompt>>

ComposeMessages ==
    /\ fn.op = "compose_messages" /\ ~fn.done
    /\ Returned(compose_messages(DEFAULT_PROMPT, fn.arg))

\* api_chat: chat(..., history=user.get("history", []),
\*                user_text=text_in or "(start)") -> build_messages
ApiChatMessages ==
    /\ fn.op = "api_chat" /\ ~fn.done
    /\ Returned(build_messages(<<"Guest">>, 5, "en", "child",
                               <<"gentle", " ", "warm-up">>, fn.arg.history,
                               IF fn.arg.text_in = <<>> THEN <<"(start)">>
                               ELSE fn.arg.text_in))

BuildTurnMessages ==
    /\ fn.op = "build_turn_messages" /\ ~fn.done
    /\ Returned(build_turn_messages(fn.arg.user_text, <<"Mia">>, 7, "child",
                                    fn.arg.last_assistant, None))

ClampTwoSentences ==
    /\ fn.op = "clamp_two_sentences" /\ ~fn.done
    /\ Returned(clamp_two_sentences(fn.arg))

StripAndExtractCues ==
    /\ fn.op = "strip_and_extract_cues" /\ ~fn.done
    /\ Returned(strip_and_extract_cues(fn.arg))

(***************************************************************************)
(* Initial states and specifications.                                      *)
(***************************************************************************)
\* a store that earlier turns of u1 filled up to n entries
OldHistory(n) ==
    [i \in 1..n |-> Entry(IF i % 2 = 1 THEN "user" ELSE "assistant",
                          i - n - 1, <<"old">>)]

OldDb(n) ==
    [u \in {"u1"} |-> [NewProfile("Guest", 5, "en") EXCEPT
                            !.history = OldHistory(n)]]

HealthyFiles == {MissingFile, OkFile(OldDb(HIST_CAP - 1))}

\* a store in which /api/profile and three entries of earlier turns left u1
RichDb ==
    [u \in {"u1"} |-> [name |-> "Mia", age |-> 15, lang |-> "vi",
                       mode |-> "teen", history |-> OldHistory(3)]]

FaultyFiles == {MissingFile, GarbledFile, UnreadableFile}

InitRest ==
    /\ pc = [p \in Procs |-> "idle"]
    /\ st = [p \in Procs |-> "-"]
    /\ req = [p \in Procs |-> NoBody]
    /\ loc = [p \in Procs |-> NoLoc]
    /\ resp = [p \in Procs |-> NoResp]
    /\ served = <<>>
    /\ log = [u \in Users |-> <<>>]
    /\ rt = NoRt
    /\ fn = NoFn
    /\ prompt = PromptAtBoot

Init ==
    /\ \/ app = "fastapi" /\ file = MissingFile
       \/ app = "flask" /\ file \in HealthyFiles
    /\ InitRest

InitFault ==
    /\ app = "flask" /\ file \in FaultyFiles
    /\ InitRest

InitAppend ==
    /\ app = "library" /\ file = MissingFile
    /\ InitRest

InitHints ==
    /\ app = "flask" /\ file \in HealthyFiles
    /\ InitRest

InitPure ==
    /\ app = "library" /\ file = MissingFile
    /\ pc = [p \in Procs |-> "idle"]
    /\ st = [p \in Procs |-> "-"]
    /\ req = [p \in Procs |-> NoBody]
    /\ loc = [p \in Procs |-> NoLoc]
    /\ resp = [p \in Procs |-> NoResp]
    /\ served = <<>>
    /\ log = [u \in Users |-> <<>>]
    /\ rt = NoRt
    /\ fn \in FnCalls
    /\ prompt = PromptAtBoot

InitStore ==
    /\ app = "library" /\ file \in {MissingFile, OkFile(RichDb)}
    /\ InitRest

NextFlask ==
    \E p \in Procs :
        \/ \E body \in ChatBodies : ApiChatRequest(p, body)
        \/ \E body \in ProfileBodies : ProfileRequest(p, body)
        \/ GetOrCreateLoad(p)
        \/ UpdateLoad(p)
        \/ AppendHistoryLoad(p)
        \/ SaveOpen(p)
        \/ SaveDump(p)
        \/ \E o \in FlaskOutcomes : ClientPrimary(p, o)
        \/ \E o \in FlaskOutcomes : ClientFallback(p, o)

NextFastApi ==
    \/ \E body \in ChatRequestsIn : ChatRequest(body)
    \/ \E o \in ChatOutcomes : ChatPrimary(o)
    \/ \E o \in ChatOutcomes : ChatFallback(o)
    \/ ChatRespond

NextAppend ==
    \/ \E u \in Users : CallGetOrCreate(1, u)
    \/ \E u \in Users : CallAppend(1, u)
    \/ GetOrCreateLoad(1)
    \/ AppendHistoryLoad(1)
    \/ SaveOpen(1)
    \/ SaveDump(1)

\* direct calls of get_or_create (first and repeated) and append_history
NextStore ==
    \/ \E u \in Users : CallGetOrCreate(1, u)
    \/ \E u \in Users, name \in ReloadNames, age \in ReloadAges,
          lang \in ReloadLangs : CallReload(1, u, name, age, lang)
    \/ \E u \in Users : CallAppend(1, u)
    \/ GetOrCreateLoad(1)
    \/ AppendHistoryLoad(1)
    \/ SaveOpen(1)
    \/ SaveDump(1)

\* one worker thread serving /api/chat turns one after the other
NextChatWorker ==
    \/ \E body \in ChatBodies : ApiChatRequest(1, body)
    \/ GetOrCreateLoad(1)
    \/ AppendHistoryLoad(1)
    \/ SaveOpen(1)
    \/ SaveDump(1)
    \/ \E o \in FlaskOutcomes : ClientPrimary(1, o)
    \/ \E o \in FlaskOutcomes : ClientFallback(1, o)

\* one worker thread serving /api/chat turns with and without name and age
NextHintedWorker ==
    \/ \E body \in ChatBodies \cup HintedChatBodies : ApiChatRequest(1, body)
    \/ GetOrCreateLoad(1)
    \/ AppendHistoryLoad(1)
    \/ SaveOpen(1)
    \/ SaveDump(1)
    \/ \E o \in FlaskOutcomes : ClientPrimary(1, o)
    \/ \E o \in FlaskOutcomes : ClientFallback(1, o)

\* the server starts with no prompt file in place, or with the default one
InitPrompt ==
    /\ app = "fastapi" /\ file = MissingFile
    /\ pc = [p \in Procs |-> "idle"]
    /\ st = [p \in Procs |-> "-"]
    /\ req = [p \in Procs |-> NoBody]
    /\ loc = [p \in Procs |-> NoLoc]
    /\ resp = [p \in Procs |-> NoResp]
    /\ served = <<>>
    /\ log = [u \in Users |-> <<>>]
    /\ rt = NoRt
    /\ fn = NoFn
    /\ prompt \in {PromptAtBoot,
                    [PromptAtBoot EXCEPT
                       !.files[DEFAULT_PROMPT_FILE] =
                          [there |-> TRUE, readable |-> TRUE,
                           text |-> BootText, mtime |-> 1],
                       !.top[DEFAULT_PROMPT_FILE] = 1]}

NextPrompt ==
    \/ \E f \in PromptFiles, text \in PromptTexts, m \in 1..MaxMtime :
          EditPrompt(f, text, m)
    \/ \E f \in PromptFiles : RemovePrompt(f)
    \/ \E f \in PromptFiles : ChmodPrompt(f)
    \/ \E path \in EnvPaths, ver \in EnvVersions : SetPromptEnv(path, ver)
    \/ LoadStat
    \/ LoadRead

NextPure ==
    \/ ComposeMessages
    \/ ApiChatMessages
    \/ BuildTurnMessages
    \/ ClampTwoSentences
    \/ StripAndExtractCues

Next == NextFlask \/ NextFastApi

Spec == Init /\ [][Next]_vars
SpecRouter == Init /\ [][NextFastApi \/ NextChatWorker]_vars
SpecFault == InitFault /\ [][NextFlask]_vars
SpecAppend == InitAppend /\ [][NextAppend]_vars
SpecStore == InitStore /\ [][NextStore]_vars
SpecPure == InitPure /\ [][NextPure]_vars
SpecPrompt == InitPrompt /\ [][NextPrompt]_vars
SpecHints == InitHints /\ [][NextHintedWorker]_vars

(***************************************************************************)
(* The two-tier routing of a turn.                                         *)
(***************************************************************************)
\* the /chat turn has been answered
ChatDone == rt.done /\ rt.pc = "idle"

\* the text /chat answers with is the local filler line
FillerUsed == ChatDone /\ rt.text = <<>>

FillerLine == default_seed_line(rt.name, rt.age, rt.mode, rt.lang)

\* the call logs of the turns in progress and of the turns answered
FlaskCallLogs ==
    {loc[p].calls : p \in Procs} \cup {resp[p].calls : p \in Procs}

\* C1: whatever the primary and the fallback call do, the turn handler does
\* not raise and answers with a non-empty reply, and when both tiers fail or
\* return nothing the reply is the local filler line.
C1_NoRaiseAndFillerReply ==
    /\ \A p \in Procs :
          /\ resp[p].kind # "model_error"
          /\ (resp[p].kind = "ok" /\ resp[p].op = "chat")
                => resp[p].reply # <<>>
    /\ ChatDone => rt.reply # <<>>
    /\ FillerUsed => rt.reply = FillerLine

\* C2: whenever the primary call errors or returns an empty or blank
\* completion, the fallback model is called before a filler line is the reply.
C2_FallbackBeforeFiller ==
    (ChatDone /\ rt.calls[1].result \in {"raised", "empty"})
        => /\ Len(rt.calls) = 2
           /\ rt.calls[2].model = FALLBACK_MODEL

\* C3: model_used names the producer of the returned text: the primary model
\* only if its call produced the text, the fallback model only if its call
\* did, and a sentinel that is neither when the text is the filler line.
C3_ModelUsedIsProducer ==
    ChatDone =>
        /\ rt.model_used = PRIMARY_MODEL
              => (Len(rt.calls) = 1 /\ rt.calls[1].result = "text")
        /\ rt.model_used = FALLBACK_MODEL
              => (Len(rt.calls) = 2 /\ rt.calls[2].result = "text")
        /\ FillerUsed => rt.model_used \notin {PRIMARY_MODEL, FALLBACK_MODEL}

\* C4: in every turn whose primary call raises, the result names the fallback
\* model as model_used and carries a non-empty reply, whatever the fallback
\* call does.
C4_PrimaryRaisesThenFallbackId ==
    /\ (ChatDone /\ rt.calls[1].result = "raised")
          => (rt.model_used = FALLBACK_MODEL /\ rt.reply # <<>>)
    /\ \A p \in Procs :
          (/\ resp[p].op = "chat"
           /\ resp[p].calls # <<>>
           /\ resp[p].calls[1].result = "raised")
              => /\ resp[p].kind = "ok"
                 /\ resp[p].model = CFG_FALLBACK_MODEL
                 /\ resp[p].reply # <<>>

\* a call log of one turn: one call of the primary model, then at most one
\* call of the fallback model, made only after the primary call failed
\* (raised or gave no text)
TwoTierLog(calls, primary, fallback) ==
    /\ Len(calls) <= 2
    /\ Len(calls) >= 1 => calls[1].model = primary
    /\ Len(calls) = 2 => /\ calls[2].model = fallback
                         /\ calls[1].result # "text"

\* C5: a turn calls the primary model at most once and the fallback model at
\* most once; the fallback is never called before the primary call failed nor
\* when the primary call returned text.
C5_AtMostOneCallPerTier ==
    /\ TwoTierLog(rt.calls, PRIMARY_MODEL, FALLBACK_MODEL)
    /\ Len(rt.calls) = 2 => rt.calls[1].result = "raised"
    /\ \A calls \in FlaskCallLogs :
          TwoTierLog(calls, CFG_PRIMARY_MODEL, CFG_FALLBACK_MODEL)

\* both tiers were called in an answered /chat turn and in an answered
\* /api/chat turn
C5_Witness ==
    \/ ChatDone /\ Len(rt.calls) = 2
    \/ \E p \in Procs : resp[p].kind = "ok" /\ Len(resp[p].calls) = 2

(***************************************************************************)
(* The profile store.                                                      *)
(***************************************************************************)
Stored == _load(file)

Idle == \A p \in Procs : pc[p] = "idle"

Range(h) == {h[i] : i \in 1..Len(h)}

Min(a, b) == IF a < b THEN a ELSE b

\* C6: whatever get_or_create, update and append_history operations the
\* request handlers issue, in any interleaving, every stored profile's
\* history has at most 20 entries.
C6_HistoryWithinCap ==
    \A u \in DOMAIN Stored : Len(Stored[u].history) <= HIST_CAP

\* a full history whose oldest entries were dropped for a turn's entries
C6_Witness ==
    \E u \in DOMAIN Stored :
        LET h == Stored[u].history
        IN  /\ Len(h) = HIST_CAP
            /\ h[Len(h)].content.turn >= 1
            /\ h[1].content.turn > 0 - (HIST_CAP - 1)

\* C7: after n append_history calls made one after the other on a freshly
\* created profile, the stored history is the last min(n, 20) entries handed
\* over, in the order of the calls.
C7_LastTwentyInOrder ==
    Idle =>
        \A u \in DOMAIN Stored :
            LET h == Stored[u].history
                n == Len(log[u])
            IN  /\ Len(h) = Min(n, HIST_CAP)
                /\ \A i \in 1..Len(h) : h[i] = log[u][n - Len(h) + i]

\* 25 calls were made and the 20 most recent entries are stored
C7_Witness ==
    \E u \in DOMAIN Stored :
        /\ Idle
        /\ Len(log[u]) = 25
        /\ Len(Stored[u].history) = 20
        /\ Stored[u].history[1].content.turn = 6

\* C8: two requests for two different users, in any interleaving: when both
\* have finished (neither ended in an exception) both profiles exist, and
\* each history holds exactly the entries its own user's turn handed to
\* append_history.
C8_UsersIndependent ==
    (/\ Idle
     /\ Len(served) = 2
     /\ served[1].user_id # served[2].user_id
     /\ \A p \in Procs : resp[p].kind \in {"ok", "none"})
        => /\ file.kind = "ok"
           /\ \A u \in {served[1].user_id, served[2].user_id} :
                /\ u \in DOMAIN Stored
                /\ Range(log[u]) \subseteq Range(Stored[u].history)
                /\ \A e \in Range(Stored[u].history) :
                      e.content.turn >= 1 => e \in Range(log[u])

\* the /api/chat turns that were answered
AnsweredChats ==
    {resp[p].id : p \in {q \in Procs : resp[q].kind = "ok" /\ resp[q].op = "chat"}}

IsEntryOf(e, role, t) == e.role = role /\ e.content.turn = t

\* C9: turns of one user, in any interleaving: the user entry and the
\* assistant entry of an answered turn are adjacent in the stored history,
\* user first.
C9_TurnEntriesAdjacent ==
    (\A i \in 1..Len(served) :
        served[i].op = "chat" /\ served[i].user_id = served[1].user_id)
        => \A u \in DOMAIN Stored, t \in AnsweredChats :
              (\E e \in Range(log[u]) : IsEntryOf(e, "user", t))
                 => LET h == Stored[u].history
                    IN  \A i \in 1..Len(h) :
                          /\ IsEntryOf(h[i], "user", t)
                                => /\ i < Len(h)
                                   /\ IsEntryOf(h[i + 1], "assistant", t)
                          /\ IsEntryOf(h[i], "assistant", t)
                                => /\ i > 1
                                   /\ IsEntryOf(h[i - 1], "user", t)

\* the load step of the get_or_create call of thread p is taken
GetOrCreateLoads(p) ==
    /\ pc[p] \in GocOps /\ st[p] = "load"
    /\ <<pc[p], st[p]>> # <<pc'[p], st'[p]>>

\* the profile of user u is in the store file
Persisted(u) == file.kind = "ok" /\ u \in DOMAIN file.db

\* C10: with the backing store missing, unreadable or corrupt, the store
\* operations treat it as empty and complete without raising.
C10_StoreFailsSoft ==
    \A p \in Procs : resp[p].kind # "storage_error"

\* C11: get_or_create for a user_id whose profile is persisted, with any
\* name, age and lang hints, returns the record exactly as persisted (name,
\* age, lang, mode, history) and leaves the store file as it is; so does every
\* repetition of the call.
C11_ReloadRoundTrip ==
    [][\A p \in Procs :
          (GetOrCreateLoads(p) /\ Persisted(req[p].user_id))
             => /\ file' = file
                /\ pc'[p] # pc[p]
                /\ LET got == IF pc'[p] = "idle" THEN resp'[p].profile
                               ELSE loc'[p].user
                   IN  got = file.db[req[p].user_id]]_vars

\* a profile that /api/profile had set up and that grew by appended entries
\* was returned by a repeated get_or_create whose hints carry another name
C11_Witness ==
    /\ Idle
    /\ resp[1].kind = "ok" /\ resp[1].op = "reload"
    /\ resp[1].profile.name = "Mia" /\ resp[1].profile.mode = "teen"
    /\ Len(resp[1].profile.history) > 3

\* C12: the mode of every stored profile is the one its stored age gives
\* (child below 13, teen below 18, adult otherwise); a mode hint of a request
\* never reaches the store.
C12_ModeDerivedFromAge ==
    \A u \in DOMAIN Stored : Stored[u].mode = mode_of(Stored[u].age)

\* C13: when the response of an /api/chat turn that carried a name or an age
\* is returned, the stored profile of its user holds that name and age, and
\* its history holds the entries of the turn.
C13_LearnedFactsPersisted ==
    [][\A p \in Procs :
          (/\ req[p].op = "chat"
           /\ pc[p] # "idle" /\ pc'[p] = "idle"
           /\ resp'[p].kind = "ok")
             => LET u == req[p].user_id
                    db == _load(file')
                IN  /\ u \in DOMAIN db
                    /\ req[p].name # Absent => db[u].name = req[p].name
                    /\ req[p].age # NoAge => db[u].age = req[p].age
                    /\ \A e \in Range(log'[u]) :
                          e.content.turn = req[p].id
                             => e \in Range(db[u].history)]_vars

(***************************************************************************)
(* The message list built for a turn.                                      *)
(***************************************************************************)
\* the call whose result is in fn built a message list
BuiltMessages(ops) == fn.done /\ fn.op \in ops

\* the history the call was given, as the messages its entries map to:
\* entries of the coach get role assistant, the others role user; an entry
\* without text has nothing to replay
HistoryMessages ==
    IF fn.op = "compose_messages"
    THEN LET kept == SelectSeq(fn.arg.history,
                               LAMBDA t : Strip(OrEmpty(t.text)) # <<>>)
         IN  [i \in 1..Len(kept) |->
                Msg(IF kept[i].sender \in {"coach", "assistant"}
                    THEN "assistant" ELSE "user", Strip(kept[i].text))]
    ELSE IF fn.op = "api_chat" THEN fn.arg.history
    ELSE <<>>

\* what the live turn may carry: the seed instruction, the silence nudge, or
\* the user text (for /api/chat the start marker stands for a seed)
LiveTexts ==
    IF fn.op = "compose_messages"
    THEN {SeedInstruction, SilenceNudge, Strip(OrEmpty(fn.arg.user_text))}
    ELSE IF fn.op = "api_chat" THEN {fn.arg.text_in, <<"(start)">>}
    ELSE {OrEmpty(fn.arg.user_text)}

IsLive(msg) ==
    msg.role = "user" /\ msg.content \in LiveTexts /\ Strip(msg.content) # <<>>

IsSuffix(a, b) ==
    Len(a) <= Len(b) /\ a = SubSeq(b, Len(b) - Len(a) + 1, Len(b))

\* C14: whatever include_seed, no_reply and user_text are, the built list
\* ends with a live-turn message (seed instruction, silence nudge or the user
\* text) whose content is not blank, and it is the only one: the messages
\* between the first and the last are history.
C14_OneLiveMessage ==
    BuiltMessages({"compose_messages", "api_chat", "build_turn_messages"})
        => LET m == fn.out
           IN  /\ Len(m) >= 2
               /\ IsLive(m[Len(m)])
               /\ fn.op # "build_turn_messages"
                     => \A i \in 2..(Len(m) - 1) :
                           m[i] \in Range(HistoryMessages)

\* C15: the built list is one system message with the composed prompt, then
\* the replayed history oldest first (learner entries as user, coach entries
\* as assistant), then the live-turn message, and nothing else.
C15_SystemHistoryLive ==
    BuiltMessages({"compose_messages", "api_chat"})
        => LET m == fn.out
           IN  /\ Len(m) >= 2
               /\ m[1].role = "system" /\ m[1].content # <<>>
               /\ IsLive(m[Len(m)])
               /\ IsSuffix(SubSeq(m, 2, Len(m) - 1), HistoryMessages)

\* C16: at most 12 history entries are replayed into the list, and they are
\* the most recent ones of the history given.
C16_ReplayAtMostTwelve ==
    BuiltMessages({"compose_messages", "api_chat"})
        => LET replayed == SelectSeq(Tail(fn.out),
                                     LAMBDA m : m \in Range(HistoryMessages))
           IN  /\ Len(replayed) <= 12
               /\ IsSuffix(replayed, HistoryMessages)

(***************************************************************************)
(* The phase of a /chat turn and its reply.                                *)
(***************************************************************************)
\* the /chat turn in progress has built its message list
ChatStarted == rt.n >= 1

\* what the turn tells the model (the system prompt included) mentions the
\* word
InstructionMentions(word) ==
    \E i \in 1..Len(rt.messages) : word \in Range(rt.messages[i].content)

\* C17: in a turn whose request carries no name the live instruction is to
\* ask for the learner's name and does not go on to the age; in a turn with a
\* name and no age it is to ask for the age.
C17_AskNameThenAge ==
    ChatStarted =>
        /\ rt.body.name = None
              => /\ InstructionMentions("name")
                 /\ ~InstructionMentions("age")
        /\ (rt.body.name # None /\ rt.body.age = NoAge)
              => InstructionMentions("age")

\* C18: of two /chat turns in a row for the same learner, both silent
\* (no_reply set, no user text), the second carrying the first reply as the
\* coach's last utterance, the second reply differs from the first.
C18_SilenceRepliesDiffer ==
    (/\ ChatDone
     /\ Silent(rt.body) /\ rt.prev.silent
     /\ rt.prev.name = rt.name
     /\ rt.body.history # <<>>
     /\ rt.body.history[Len(rt.body.history)].text = rt.prev.reply)
        => rt.reply # rt.prev.reply

\* C19: whatever the model calls return, the reply of the turn holds exactly
\* one question mark, and it is the last character.
C19_OneTrailingQuestionMark ==
    ChatDone =>
        /\ Cardinality({i \in 1..Len(rt.reply) : rt.reply[i] = "?"}) = 1
        /\ rt.reply[Len(rt.reply)] = "?"

(***************************************************************************)
(* The two-sentence clamp.                                                 *)
(***************************************************************************)
\* the places where a text is cut: a whitespace character right after a
\* sentence ender
CutStarts(s) == {i \in 2..Len(s) : s[i] \in WS /\ s[i - 1] \in Enders}

\* the last position of the whitespace run that starts at i
RunEnd(s, i) ==
    CHOOSE k \in i..Len(s) :
        /\ \A m \in i..k : s[m] \in WS
        /\ (k = Len(s) \/ s[k + 1] \notin WS)

Least(S) == CHOOSE i \in S : \A j \in S : i <= j

\* C20: clamp_two_sentences gives the empty text for an empty or blank text
\* (and for None); a stripped text without a cut is returned as it is;
\* otherwise the result is the text before the first cut, one space, and
\* the text from the end of that whitespace run up to the second cut.  The
\* result holds at most one cut, that is at most two fragments.
C20_ClampKeepsFirstTwo ==
    (fn.done /\ fn.op = "clamp_two_sentences")
        => LET s == Strip(OrEmpty(fn.arg))
               cuts == CutStarts(s)
           IN  /\ s = <<>> => fn.out = <<>>
               /\ cuts = {} => fn.out = s
               /\ cuts # {}
                     => LET i1 == Least(cuts)
                            j1 == RunEnd(s, i1)
                            later == {i \in cuts : i > j1}
                            e == IF later = {} THEN Len(s)
                                 ELSE Least(later) - 1
                        IN  fn.out = SubSeq(s, 1, i1 - 1) \o <<" ">>
                                     \o SubSeq(s, j1 + 1, e)
               /\ Cardinality(CutStarts(fn.out)) <= 1

\* a text of three fragments, the first two apart by more than one
\* whitespace character, was clamped to its first two fragments
C20_Witness ==
    /\ fn.done /\ fn.op = "clamp_two_sentences"
    /\ fn.arg # None
    /\ Cardinality(CutStarts(Strip(fn.arg))) = 2
    /\ RunEnd(Strip(fn.arg), Least(CutStarts(Strip(fn.arg))))
           > Least(CutStarts(Strip(fn.arg)))
    /\ Cardinality(CutStarts(fn.out)) = 1
    /\ Len(fn.out) < Len(Strip(fn.arg))

(***************************************************************************)
(* Tags in a reply.                                                        *)
(***************************************************************************)
\* positions of sub in tok
Places(tok, sub) ==
    {k \in 1..(Len(tok) - Len(sub) + 1) : SubSeq(tok, k, k + Len(sub) - 1) = sub}

\* the text holds "[[", later "]]": a double-bracketed token
HasBracketed(s) ==
    \E i \in 1..Len(s) : \E j \in i..Len(s) :
        \E a \in Places(s[i], "[[") : \E b \in Places(s[j], "]]") :
            i < j \/ a + 2 <= b

\* C21: no /api/chat reply returned to the caller and no assistant entry
\* that a turn stored in a history holds a double-bracketed token
C21_NoBracketedToken ==
    /\ \A p \in Procs :
          resp[p].kind = "ok" /\ resp[p].op = "chat"
              => ~HasBracketed(resp[p].reply)
    /\ \A u \in DOMAIN Stored : \A i \in 1..Len(Stored[u].history) :
          LET e == Stored[u].history[i]
          IN  e.role = "assistant" /\ e.content.turn >= 1
                  => ~HasBracketed(e.content.text)

(***************************************************************************)
(* The system prompt and its cache.                                        *)
(***************************************************************************)
LoadEnded == prompt.pc = "idle" /\ prompt.last.kind # "none"

\* C22: a load_system_prompt call that finds the prompt file missing, or
\* cannot read it, does not raise and returns the built-in default
C22_UnavailableGivesDefault ==
    LoadEnded /\ prompt.last.unavailable
        => prompt.last.kind = "returned" /\ prompt.last.text = DEFAULT_PROMPT

\* the last call returned the text its file held when it returned, without
\* the front matter; it read the file only on no cached text or another
\* st_mtime or path than the cached ones, and else returned the cached text
ReturnedCurrentText ==
    LET l == prompt.last
        differs == \/ l.was.text = None
                   \/ l.was.mtime # l.st_mtime
                   \/ l.was.path # l.path
    IN  LoadEnded =>
          /\ l.kind = "returned" /\ ~l.unavailable
                => l.text = strip_front_matter(l.now)
          /\ l.read => differs
          /\ l.kind = "returned" /\ ~l.unavailable /\ ~differs
                => ~l.read /\ l.text = l.was.text

\* C23 as stated: whenever every write changed the last-modified time of
\* its file (each write of the model does), every call returns the current
\* text of the resolved file and reads the file only when the cache differs
C23_EveryLoadCurrent == ReturnedCurrentText

\* C23 amended: the same, when every write gave its file a last-modified
\* time later than any the file had shown before
C23_RisingMtimeLoadCurrent == prompt.rising => ReturnedCurrentText

\* a call re-read the file it had cached, after a write with a later time,
\* and returned another text than the cached one
C23_Witness ==
    /\ LoadEnded /\ prompt.rising /\ prompt.loads = 2
    /\ prompt.last.kind = "returned" /\ prompt.last.read
    /\ prompt.last.was.path = prompt.last.path
    /\ prompt.last.was.mtime < prompt.last.st_mtime
    /\ prompt.last.text # prompt.last.was.text
    /\ prompt.last.text = strip_front_matter(prompt.last.now)
    /\ prompt.last.text # prompt.last.now

(***************************************************************************)
(* A turn of /api/chat whose model calls fail.                             *)
(***************************************************************************)
\* the /api/chat turns that ended after a second model call that gave no
\* text: the fallback raised too (no outcome of the model is an empty text)
FailedChats ==
    {resp[p].id : p \in {q \in Procs :
                            /\ resp[q].op = "chat"
                            /\ Len(resp[q].calls) = 2
                            /\ resp[q].calls[2].result # "text"}}

\* C24: an /api/chat turn whose model call raised on both tiers handed no
\* entry to append_history and left none in a stored history: neither the
\* user's text nor an assistant entry of that turn
C24_FailedTurnAppendsNothing ==
    \A t \in FailedChats, u \in Users :
        /\ \A e \in Range(log[u]) : e.content.turn # t
        /\ u \in DOMAIN Stored
              => \A e \in Range(Stored[u].history) : e.content.turn # t

\* a turn failed on both tiers (Flask answered 500) for a user whose stored
\* history holds the entries of an earlier, answered turn
C24_Witness ==
    \E p \in Procs :
        /\ resp[p].id \in FailedChats /\ resp[p].kind = "model_error"
        /\ LET u == served[resp[p].id].user_id
           IN  /\ u \in DOMAIN Stored
               /\ \E e \in Range(Stored[u].history) :
                     e.content.turn >= 1 /\ e.role = "assistant"

====
